---- MODULE Spec2Model ----
(***************************************************************************)
(* DynamicSpatialHash (src/dynamic-spatial-hash.js): a hash table from     *)
(* 32-bit cell hashes to sets of objects, with the set of hashes of each   *)
(* tracked object stored on the object as __spatialHashes.                 *)
(*                                                                         *)
(* A 32-bit unsigned value v is written <<v \div 65536, v % 65536>>, two   *)
(* 16-bit halves, so that no intermediate value leaves the integer range   *)
(* of the model checker.                                                   *)
(***************************************************************************)
EXTENDS Integers, FiniteSets, Sequences, TLC

VARIABLES
  table,          \* #table: Map from hash to Set of objects (a function on its keys)
  cellSize,       \* the value v last accepted by the cellSize setter; #cellSize = 1 / v
  overflow,       \* this.overflow
  spatialHashes,  \* object.__spatialHashes: <<>> when undefined, <<S>> when the Set S
  covering,       \* history: the cells (cx, cy) visited by the last getHashFromObject
                  \* whose result is the object's __spatialHashes; <<>> or <<C>>
  last            \* the last call: its name, its object, the object's x, y, width and
                  \* height when the call reads them, and what it returned or threw

vars == <<table, cellSize, overflow, spatialHashes, covering, last>>

-----------------------------------------------------------------------------
(* Bounds and inputs *)

NumObjects == 2

Objects == 1 .. NumObjects

\* Bounding boxes (center x, y and extents) the caller gives its objects.  With
\* cells of 32: BoxLow covers the cell (0, -1), BoxLeft the cell (-2, 0) and
\* BoxWide the cells (-2, 0) and (-1, 0).
BoxLow  == [x |-> 16,  y |-> -16, width |-> 10, height |-> 10]
BoxLeft == [x |-> -48, y |-> 16,  width |-> 10, height |-> 10]
BoxWide == [x |-> -32, y |-> 16,  width |-> 20, height |-> 10]

Boxes == {BoxLow, BoxLeft, BoxWide}

\* The bounding boxes of the README's and the specification's example.
BoxA  == [x |-> 10,  y |-> 20,  width |-> 32, height |-> 32]
BoxB  == [x |-> 200, y |-> 200, width |-> 10, height |-> 10]
BoxA2 == [x |-> 200, y |-> 205, width |-> 32, height |-> 32]

ScenarioBoxes == {BoxA, BoxB, BoxA2}

\* The bounding boxes used while cellSize and overflow change.
ConfigBoxes == {BoxLeft, BoxWide}

\* Values the caller assigns to cellSize, each with its typeof: cell sizes, the
\* numbers -5 and 0, and a string.
ValidCellSizes == {16, 32, 48}

InvalidCellSizes == {<<"number", -5>>, <<"number", 0>>, <<"string", 32>>}

CellSizeInputs == {<<"number", c>> : c \in ValidCellSizes} \cup InvalidCellSizes

\* Values the caller assigns to overflow.
OverflowInputs == {0, 1}

-----------------------------------------------------------------------------
(* Values *)

Undefined == <<>>

Defined(S) == <<S>>

IsDefined(v) == v # <<>>

ValueOf(v) == v[1]

-----------------------------------------------------------------------------
(* hash(x, y): ((x * 16777619) ^ (y * 16777619)) >>> 0 *)

HashPrime == 16777619

Half == 65536

\* The bitwise exclusive or of two n-bit naturals.
RECURSIVE BitXor(_, _, _)
BitXor(a, b, n) ==
  IF n = 0 THEN 0
  ELSE (((a % 2) + (b % 2)) % 2) + 2 * BitXor(a \div 2, b \div 2, n - 1)

\* ToInt32(x * 16777619): the product modulo 2^32, as two 16-bit halves.
\* 16777619 = 256 * 65536 + 403.
MulPrime(x) ==
  LET lowProduct == x * (HashPrime % Half)
      lo    == lowProduct % Half
      carry == lowProduct \div Half
      hi    == ((x * (HashPrime \div Half)) + carry) % Half
  IN  <<hi, lo>>

\* The exclusive or of two 4-bit values, tabulated.
Xor4 == [a \in 0 .. 15 |-> [b \in 0 .. 15 |-> BitXor(a, b, 4)]]

\* The exclusive or of two 16-bit values, four bits at a time.
Xor16(a, b) ==
    Xor4[a % 16][b % 16]
  + 16   * Xor4[(a \div 16) % 16][(b \div 16) % 16]
  + 256  * Xor4[(a \div 256) % 16][(b \div 256) % 16]
  + 4096 * Xor4[a \div 4096][b \div 4096]

hash(x, y) ==
  LET a == MulPrime(x)
      b == MulPrime(y)
  IN  <<Xor16(a[1], b[1]), Xor16(a[2], b[2])>>

-----------------------------------------------------------------------------
(* getHashFromObject *)

\* Math.round in the place of Math.floor: Math.round(v) = Math.floor(v + 0.5).
RoundCell(n, c) == (n + c) \div (2 * c)

\* Math.floor(v * #cellSize) for v = n / 2 (n an integer) and #cellSize = 1 / c.
\* In double precision the product is exact when c is a power of two; for the
\* other cell size used here, 48, no coordinate of the bounding boxes above
\* is a multiple of it and the rounded product has the floor of the quotient.
FloorCell(n, c) == n \div (2 * c)

\* The cells (x, y) the two loops of getHashFromObject visit for bounding box b
\* when #cellSize is 1 / c and overflow is k.
CellsAt(b, c, k) ==
  LET minX == FloorCell(2 * b.x - b.width,  c) - k
      minY == FloorCell(2 * b.y - b.height, c) - k
      maxX == FloorCell(2 * b.x + b.width,  c) + k
      maxY == FloorCell(2 * b.y + b.height, c) + k
  IN  {cell \in (minX .. maxX) \X (minY .. maxY) : TRUE}

Cells(b) == CellsAt(b, cellSize, overflow)

getHashFromObject(b) == {hash(c[1], c[2]) : c \in Cells(b)}

-----------------------------------------------------------------------------
(* The operations, as functions of the index state st =                    *)
(* [table, spatialHashes, covering]; each returns the state it leaves and  *)
(* what the call returned ("this", "undefined", or "TypeError" thrown).    *)

St == [table |-> table, spatialHashes |-> spatialHashes, covering |-> covering]

EmptyTable == [h \in {} |-> {}]

\* add with the insertion made only into the buckets it creates
\* (if (!has) set(hash, new Set([object])), and nothing otherwise).
addIntoNewBucketsOnly(st, o, b) ==
  LET hashes == getHashFromObject(b)
      keys   == DOMAIN st.table \cup hashes
  IN  [st  |-> [table |-> [h \in keys |->
                             IF h \in DOMAIN st.table THEN st.table[h] ELSE {o}],
                spatialHashes |-> [st.spatialHashes EXCEPT ![o] = Defined(hashes)],
                covering      |-> [st.covering EXCEPT ![o] = Defined(Cells(b))]],
       ret |-> "this"]

\* add(object), the object's bounding box being b.
add(st, o, b) ==
  LET hashes == getHashFromObject(b)
      keys   == DOMAIN st.table \cup hashes
  IN  [st  |-> [table |-> [h \in keys |->
                             IF h \in hashes
                             THEN (IF h \in DOMAIN st.table THEN st.table[h] ELSE {}) \cup {o}
                             ELSE st.table[h]],
                spatialHashes |-> [st.spatialHashes EXCEPT ![o] = Defined(hashes)],
                covering      |-> [st.covering EXCEPT ![o] = Defined(Cells(b))]],
       ret |-> "this"]

\* clear(hash) calling this.#table.clear().
clearEverything(t, key) == [h \in {} |-> {}]

\* clear(hash) on a table.
clear(t, key) == [h \in DOMAIN t \ {key} |-> t[h]]

\* delete without the removal of the buckets it empties.
deleteKeepingEmptyBuckets(st, o) ==
  IF ~IsDefined(st.spatialHashes[o])
  THEN [st |-> st, ret |-> "undefined"]
  ELSE
    LET hashes  == ValueOf(st.spatialHashes[o])
        touched == hashes \cap DOMAIN st.table
    IN  [st  |-> [table |-> [h \in DOMAIN st.table |->
                               IF h \in touched THEN st.table[h] \ {o} ELSE st.table[h]],
                  spatialHashes |-> [st.spatialHashes EXCEPT ![o] = Undefined],
                  covering      |-> [st.covering EXCEPT ![o] = Undefined]],
         ret |-> "this"]

\* delete with clear(hash) called for every bucket of the object, emptied or not.
deleteClearingBuckets(st, o) ==
  IF ~IsDefined(st.spatialHashes[o])
  THEN [st |-> st, ret |-> "undefined"]
  ELSE
    LET hashes == ValueOf(st.spatialHashes[o])
    IN  [st  |-> [table |-> [h \in DOMAIN st.table \ hashes |-> st.table[h]],
                  spatialHashes |-> [st.spatialHashes EXCEPT ![o] = Undefined],
                  covering      |-> [st.covering EXCEPT ![o] = Undefined]],
         ret |-> "this"]

\* delete going through the hashes computed anew from the object's bounding
\* box (one that has the recorded cells for some configuration) in the place of
\* the recorded __spatialHashes.
deleteRecomputing(st, o) ==
  IF ~IsDefined(st.spatialHashes[o])
  THEN [st |-> st, ret |-> "undefined"]
  ELSE
    LET b == CHOOSE bb \in Boxes :
               \E c \in ValidCellSizes : \E k \in OverflowInputs :
                 CellsAt(bb, c, k) = ValueOf(st.covering[o])
        hashes  == getHashFromObject(b)
        touched == hashes \cap DOMAIN st.table
        emptied == {h \in touched : st.table[h] \ {o} = {}}
    IN  [st  |-> [table |-> [h \in DOMAIN st.table \ emptied |->
                               IF h \in touched THEN st.table[h] \ {o} ELSE st.table[h]],
                  spatialHashes |-> [st.spatialHashes EXCEPT ![o] = Undefined],
                  covering      |-> [st.covering EXCEPT ![o] = Undefined]],
         ret |-> "this"]

\* delete without the line "if (!this.#table.has(hash)) return": the get of an
\* absent bucket gives undefined and the call of its delete raises.
deleteWithoutHasCheck(st, o) ==
  IF ~IsDefined(st.spatialHashes[o])
  THEN [st |-> st, ret |-> "undefined"]
  ELSE
    LET hashes  == ValueOf(st.spatialHashes[o])
        emptied == {h \in hashes \cap DOMAIN st.table : st.table[h] \ {o} = {}}
    IN  IF ~(hashes \subseteq DOMAIN st.table)
        THEN [st |-> st, ret |-> "TypeError"]
        ELSE [st  |-> [table |-> [h \in DOMAIN st.table \ emptied |->
                                    IF h \in hashes THEN st.table[h] \ {o}
                                    ELSE st.table[h]],
                       spatialHashes |-> [st.spatialHashes EXCEPT ![o] = Undefined],
                       covering      |-> [st.covering EXCEPT ![o] = Undefined]],
              ret |-> "this"]

\* delete without its first line: forEach is called on the undefined
\* __spatialHashes.
deleteWithoutGuard(st, o) ==
  IF ~IsDefined(st.spatialHashes[o])
  THEN [st |-> st, ret |-> "TypeError"]
  ELSE
    LET hashes  == ValueOf(st.spatialHashes[o])
        touched == hashes \cap DOMAIN st.table
        emptied == {h \in touched : st.table[h] \ {o} = {}}
    IN  [st  |-> [table |-> [h \in DOMAIN st.table \ emptied |->
                               IF h \in touched THEN st.table[h] \ {o} ELSE st.table[h]],
                  spatialHashes |-> [st.spatialHashes EXCEPT ![o] = Undefined],
                  covering      |-> [st.covering EXCEPT ![o] = Undefined]],
         ret |-> "this"]

\* delete(object)
delete(st, o) ==
  IF ~IsDefined(st.spatialHashes[o])
  THEN [st |-> st, ret |-> "undefined"]
  ELSE
    LET hashes  == ValueOf(st.spatialHashes[o])
        touched == hashes \cap DOMAIN st.table
        emptied == {h \in touched : st.table[h] \ {o} = {}}
    IN  [st  |-> [table |-> [h \in DOMAIN st.table \ emptied |->
                               IF h \in touched THEN st.table[h] \ {o} ELSE st.table[h]],
                  spatialHashes |-> [st.spatialHashes EXCEPT ![o] = Undefined],
                  covering      |-> [st.covering EXCEPT ![o] = Undefined]],
         ret |-> "this"]

\* update written this.delete(object) || this.add(object): the add is made
\* only when delete returned undefined.
updateDeleteOrAdd(st, o, b) ==
  LET d == delete(st, o)
  IN  IF d.ret = "this"
      THEN [st |-> d.st, ret |-> "undefined"]
      ELSE [st |-> add(d.st, o, b).st, ret |-> "undefined"]

\* update(object): this.delete(object).add(object)
update(st, o, b) ==
  LET d == delete(st, o)
  IN  IF d.ret = "this"
      THEN [st |-> add(d.st, o, b).st, ret |-> "undefined"]
      ELSE [st |-> d.st, ret |-> "TypeError"]

\* query returning an empty set for an object without __spatialHashes.
queryEmptyForUntracked(st, o) ==
  IF ~IsDefined(st.spatialHashes[o])
  THEN [ret |-> "set", objects |-> {}]
  ELSE [ret |-> "set",
        objects |-> {p \in Objects :
                       /\ p # o
                       /\ \E h \in ValueOf(st.spatialHashes[o]) \cap DOMAIN st.table :
                            p \in st.table[h]}]

\* query without the test object === otherobject.
queryIncludingSelf(st, o) ==
  IF ~IsDefined(st.spatialHashes[o])
  THEN [ret |-> "TypeError", objects |-> {}]
  ELSE [ret |-> "set",
        objects |-> {p \in Objects :
                       \E h \in ValueOf(st.spatialHashes[o]) \cap DOMAIN st.table :
                         p \in st.table[h]}]

\* query(object): the objects other than o in the buckets of o's hashes.
query(st, o) ==
  IF ~IsDefined(st.spatialHashes[o])
  THEN [ret |-> "TypeError", objects |-> {}]
  ELSE [ret |-> "set",
        objects |-> {p \in Objects :
                       /\ p # o
                       /\ \E h \in ValueOf(st.spatialHashes[o]) \cap DOMAIN st.table :
                            p \in st.table[h]}]

\* The setter with non-positive numbers raised to 1 in the place of the
\* RangeError.
setCellSizeClamping(c, v) ==
  IF v[1] # "number" THEN [cellSize |-> c, ret |-> "TypeError"]
  ELSE IF v[2] <= 0 THEN [cellSize |-> 1, ret |-> "undefined"]
  ELSE [cellSize |-> v[2], ret |-> "undefined"]

\* set cellSize(value), c being the cell size in force and v = <<typeof value, value>>.
setCellSize(c, v) ==
  IF v[1] # "number" THEN [cellSize |-> c, ret |-> "TypeError"]
  ELSE IF v[2] <= 0 THEN [cellSize |-> c, ret |-> "RangeError"]
  ELSE [cellSize |-> v[2], ret |-> "undefined"]

-----------------------------------------------------------------------------
(* The state machine *)

\* hashes is the __spatialHashes a delete call found on its object, missed
\* those of them whose bucket was absent or did not hold the object.
Call(op, o, b, ret) ==
  [op |-> op, obj |-> o, box |-> b, ret |-> ret, hashes |-> Undefined, missed |-> {}]

DefaultCellSize == 32

\* new DynamicSpatialHash(), no object of the caller added yet.
Init ==
  /\ table = EmptyTable
  /\ cellSize = DefaultCellSize
  /\ overflow = 0
  /\ spatialHashes = [o \in Objects |-> Undefined]
  /\ covering = [o \in Objects |-> Undefined]
  /\ last = Call("new", 0, Undefined, "this")

Install(st) ==
  /\ table' = st.table
  /\ spatialHashes' = st.spatialHashes
  /\ covering' = st.covering

\* add(object), the caller's object o having bounding box b.
Add(o, b) ==
  LET r == add(St, o, b)
  IN  /\ Install(r.st)
      /\ last' = Call("add", o, Defined(b), r.ret)
      /\ UNCHANGED <<cellSize, overflow>>

Delete(o) ==
  LET r == delete(St, o)
  IN  /\ Install(r.st)
      /\ last' = [Call("delete", o, Undefined, r.ret) EXCEPT
                    !.hashes = spatialHashes[o],
                    !.missed = IF IsDefined(spatialHashes[o])
                               THEN {h \in ValueOf(spatialHashes[o]) :
                                       h \notin DOMAIN table \/ o \notin table[h]}
                               ELSE {}]
      /\ UNCHANGED <<cellSize, overflow>>

\* update(object), the caller's object o having bounding box b.
Update(o, b) ==
  LET r == update(St, o, b)
  IN  /\ Install(r.st)
      /\ last' = Call("update", o, Defined(b), r.ret)
      /\ UNCHANGED <<cellSize, overflow>>

Query(o) ==
  LET r == query(St, o)
  IN  /\ last' = Call("query", o, Undefined, r.ret)
      /\ UNCHANGED <<table, cellSize, overflow, spatialHashes, covering>>

Clear(h) ==
  /\ table' = clear(table, h)
  /\ last' = Call("clear", 0, Undefined, "undefined")
  /\ UNCHANGED <<cellSize, overflow, spatialHashes, covering>>

ClearAll ==
  /\ table' = EmptyTable
  /\ last' = Call("clearAll", 0, Undefined, "undefined")
  /\ UNCHANGED <<cellSize, overflow, spatialHashes, covering>>

\* One add / delete / update / query call, the bounding boxes drawn from B.
Calls(B) ==
  \/ \E o \in Objects : \E b \in B : Add(o, b)
  \/ \E o \in Objects : Delete(o)
  \/ \E o \in Objects : \E b \in B : Update(o, b)
  \/ \E o \in Objects : Query(o)

Next == Calls(Boxes)

Spec == Init /\ [][Next]_vars

\* The same with clear(hash) and clearAll().
NextClear ==
  \/ Next
  \/ \E h \in DOMAIN table : Clear(h)
  \/ ClearAll

SpecClear == Init /\ [][NextClear]_vars

\* The calls of the example.
NextScenario == Calls(ScenarioBoxes)

SpecScenario == Init /\ [][NextScenario]_vars

\* index.cellSize = value
SetCellSize(v) ==
  LET r == setCellSize(cellSize, v)
  IN  /\ cellSize' = r.cellSize
      /\ last' = Call("setCellSize", 0, Undefined, r.ret)
      /\ UNCHANGED <<table, overflow, spatialHashes, covering>>

\* index.overflow = k
SetOverflow(k) ==
  /\ overflow' = k
  /\ last' = Call("setOverflow", 0, Undefined, "undefined")
  /\ UNCHANGED <<table, cellSize, spatialHashes, covering>>

\* add / delete / update / query calls with cellSize and overflow assigned in
\* between, add being called only on objects that have no __spatialHashes.
NextFresh ==
  \/ \E o \in Objects : \E b \in ConfigBoxes : ~IsDefined(spatialHashes[o]) /\ Add(o, b)
  \/ \E o \in Objects : Delete(o)
  \/ \E o \in Objects : \E b \in ConfigBoxes : Update(o, b)
  \/ \E o \in Objects : Query(o)
  \/ \E v \in CellSizeInputs : SetCellSize(v)
  \/ \E k \in OverflowInputs : SetOverflow(k)

SpecFresh == Init /\ [][NextFresh]_vars

-----------------------------------------------------------------------------
(* Properties *)

Tracked(o) == IsDefined(spatialHashes[o])

HashesOf(o) == ValueOf(spatialHashes[o])

\* The objects query(o) returns in the current state.
Result(o) == query(St, o).objects

\* The covering sets of two tracked objects share a cell.
SameCell(a, b) == ValueOf(covering[a]) \cap ValueOf(covering[b]) # {}

\* C1 (I2): every object in the bucket stored at H has H in its membership
\* set, after any add / delete / update calls, add on a tracked object included.
C1_BucketMembersNameTheBucket ==
  \A h \in DOMAIN table : \A o \in table[h] : Tracked(o) /\ h \in HashesOf(o)

\* C2 (I1): for every tracked object O and every H in its membership set, the
\* table has a bucket at H and that bucket contains O.
C2_MembershipIsInBuckets ==
  \A o \in Objects : Tracked(o) =>
    \A h \in HashesOf(o) : h \in DOMAIN table /\ o \in table[h]

\* C2 witness: a tracked object of two buckets, one of which it shares with
\* another tracked object, after an update.
C2_Witness ==
  /\ last.op = "update" /\ last.ret = "undefined"
  /\ \E o \in Objects : \E p \in Objects \ {o} :
       /\ Tracked(o) /\ Tracked(p)
       /\ Cardinality(HashesOf(o)) = 2
       /\ HashesOf(o) \cap HashesOf(p) # {}

\* C3 (I3): no key of the table maps to an empty bucket, in every state
\* reachable by add / delete / update / clear / clearAll calls.
C3_NoEmptyBucket == \A h \in DOMAIN table : table[h] # {}

\* C3 witness: a delete has just removed the deleted object's buckets while
\* another tracked object keeps its own.
C3_Witness ==
  /\ last.op = "delete" /\ last.ret = "this"
  /\ DOMAIN table # {}
  /\ \E p \in Objects : Tracked(p) /\ HashesOf(p) \subseteq DOMAIN table
  /\ \E h \in getHashFromObject(BoxWide) : h \notin DOMAIN table

\* C4: add(object) on a tracked object leaves the table and the membership
\* sets that update(object) would have left.
C4_AddOfTrackedIsUpdate ==
  [][\A o \in Objects : \A b \in Boxes :
       (Tracked(o) /\ Add(o, b)) =>
         /\ table' = update(St, o, b).st.table
         /\ spatialHashes' = update(St, o, b).st.spatialHashes]_vars

\* C5: update(object) on an object without membership set raises no error and
\* acts as add(object): the object then has a membership set and is in every
\* bucket it names.
C5_UpdateOfUntrackedIsAdd ==
  [][\A o \in Objects : \A b \in Boxes :
       (~Tracked(o) /\ Update(o, b)) =>
         /\ last'.ret # "TypeError"
         /\ IsDefined(spatialHashes'[o])
         /\ \A h \in ValueOf(spatialHashes'[o]) : h \in DOMAIN table' /\ o \in table'[h]]_vars

\* C6: query(A) on a tracked object A returns exactly the other tracked
\* objects whose covering sets share a cell (cx, cy) with A's.
C6_QueryIsExactlySameCell ==
  \A a \in Objects : Tracked(a) =>
    Result(a) = {p \in Objects \ {a} : Tracked(p) /\ SameCell(a, p)}

\* The example: a new index, add(A) with BoxA, add(B) with BoxB, then A moved
\* to BoxA2 and update(A); A is object 1 and B object 2.
Constructed ==
  [table |-> EmptyTable,
   spatialHashes |-> [o \in Objects |-> Undefined],
   covering |-> [o \in Objects |-> Undefined]]

AfterAdds == add(add(Constructed, 1, BoxA).st, 2, BoxB).st

AfterUpdate == update(AfterAdds, 1, BoxA2).st

\* C7: with cellSize 32 and overflow 0, after add(A) and add(B) query(A) and
\* query(B) are empty; after A is moved and update(A) is called, query(A) is
\* {B} and query(B) is {A}.
C7_Scenario ==
  /\ St = AfterAdds => (Result(1) = {} /\ Result(2) = {})
  /\ St = AfterUpdate => (Result(1) = {2} /\ Result(2) = {1})

\* C8: after delete(A), A has no membership set, A is in no bucket of the
\* table, and every bucket that held only A is no longer a key of the table.
C8_DeleteCompleteness ==
  [][\A o \in Objects : Delete(o) =>
       /\ ~IsDefined(spatialHashes'[o])
       /\ \A h \in DOMAIN table' : o \notin table'[h]
       /\ \A h \in DOMAIN table : table[h] = {o} => h \notin DOMAIN table']_vars

\* C9: for any two distinct tracked objects A and B whose covering sets share
\* a cell, B is in query(A) and A is in query(B).
C9_QuerySymmetry ==
  \A a \in Objects : \A b \in Objects \ {a} :
    (Tracked(a) /\ Tracked(b) /\ SameCell(a, b)) =>
      (b \in Result(a) /\ a \in Result(b))

\* C9 witness: two tracked objects with different covering sets that share a
\* cell, one of them just queried.
C9_Witness ==
  /\ last.op = "query" /\ last.ret = "set"
  /\ \E b \in Objects \ {last.obj} :
       /\ Tracked(b)
       /\ covering[b] # covering[last.obj]
       /\ SameCell(last.obj, b)

\* C10: update(A) called again on a tracked object A, its bounding box
\* unchanged since the previous update(A), leaves the membership sets, the
\* table and the result of query(X) for every tracked X as they were.
C10_UpdateIdempotent ==
  [][\A o \in Objects : \A b \in Boxes :
       (last = Call("update", o, Defined(b), "undefined") /\ Update(o, b)) =>
         /\ spatialHashes' = spatialHashes
         /\ table' = table
         /\ \A x \in Objects : Tracked(x) => query(St', x) = query(St, x)]_vars

\* C10 witness: update has returned for an object that shares a bucket with
\* another tracked object and is still in a bucket outside its membership set.
C10_Witness ==
  /\ last.op = "update" /\ last.ret = "undefined"
  /\ Tracked(last.obj)
  /\ \E p \in Objects \ {last.obj} : Tracked(p) /\ HashesOf(p) \cap HashesOf(last.obj) # {}
  /\ \E h \in DOMAIN table : last.obj \in table[h] /\ h \notin HashesOf(last.obj)

\* The last call was an add or an update that returned.
Indexed == \/ (last.op = "add" /\ last.ret = "this")
           \/ (last.op = "update" /\ last.ret = "undefined")

CellWindow == -8 .. 8

\* The cells the covering set is specified to have: floor((x - width/2)/c) - k
\* <= cx <= floor((x + width/2)/c) + k, and the same for cy.
SpecifiedCells(b, c, k) ==
  {cell \in CellWindow \X CellWindow :
     /\ ((2 * b.x - b.width) \div (2 * c)) - k <= cell[1]
     /\ cell[1] <= ((2 * b.x + b.width) \div (2 * c)) + k
     /\ ((2 * b.y - b.height) \div (2 * c)) - k <= cell[2]
     /\ cell[2] <= ((2 * b.y + b.height) \div (2 * c)) + k}

\* C11: the membership set recorded by add / update names exactly the cells
\* (cx, cy) of the specified range, one distinct identifier per cell.
C11_CoveringSet ==
  Indexed =>
    LET cells == SpecifiedCells(ValueOf(last.box), cellSize, overflow)
    IN  /\ covering[last.obj] = Defined(cells)
        /\ HashesOf(last.obj) = {hash(cell[1], cell[2]) : cell \in cells}
        /\ Cardinality(HashesOf(last.obj)) = Cardinality(cells)

\* The hashes getHashFromObject returns for b when #cellSize is 1 / c and
\* overflow is k.
HashesAt(b, c, k) == {hash(cell[1], cell[2]) : cell \in CellsAt(b, c, k)}

PowersOfTwo == {1, 2, 4, 8, 16, 32, 64, 128, 256, 512}

SetterErrors == {"TypeError", "RangeError"}

C15_DeleteOfUntrackedIsNoOp ==
  [][\A o \in Objects :
       (~Tracked(o) /\ Delete(o)) =>
         /\ last'.ret # "TypeError"
         /\ table' = table
         /\ spatialHashes' = spatialHashes]_vars

\* C15 witness: delete has returned for an object without membership set
\* while the table held another object.
C15_Witness ==
  /\ last.op = "delete" /\ last.hashes = Undefined /\ last.ret = "undefined"
  /\ ~Tracked(last.obj)
  /\ DOMAIN table # {}

\* C16: add(object) and delete(object) return the index itself, delete on an
\* object without membership set included.
C16_AddAndDeleteReturnThis ==
  last.op \in {"add", "delete"} => last.ret = "this"

\* C17: clear(cellId) removes exactly the bucket at cellId and leaves every
\* other bucket as it was, clearAll() removes every bucket, and both leave
\* every membership set as it was.
C17_ClearFrame ==
  [][/\ \A h \in DOMAIN table :
          Clear(h) =>
            /\ DOMAIN table' = DOMAIN table \ {h}
            /\ \A k \in DOMAIN table' : table'[k] = table[k]
            /\ spatialHashes' = spatialHashes
     /\ ClearAll => (DOMAIN table' = {} /\ spatialHashes' = spatialHashes)]_vars

\* C17 witness: clear has removed a bucket named by the membership set of a
\* tracked object, another bucket being left.
C17_Witness ==
  /\ last.op = "clear"
  /\ DOMAIN table # {}
  /\ \E o \in Objects : Tracked(o) /\ \E h \in HashesOf(o) : h \notin DOMAIN table

\* C18: the set returned by query(A) does not contain A, for every cell size
\* and overflow.
C18_SelfExclusion ==
  \A a \in Objects : Tracked(a) => a \notin Result(a)

\* C18 witness: a query has returned another object, the cell size not being
\* the default and overflow not being 0.
C18_Witness ==
  /\ last.op = "query" /\ last.ret = "set"
  /\ Result(last.obj) # {}
  /\ cellSize # DefaultCellSize
  /\ overflow # 0

\* C19: I1, I2 and I3 hold after any add-of-untracked / delete / update calls
\* interleaved with changes of cellSize and overflow: delete and update take
\* the object out of the buckets it was inserted into.
C19_InvariantsUnderConfigChanges ==
  /\ \A o \in Objects : Tracked(o) =>
       \A h \in HashesOf(o) : h \in DOMAIN table /\ o \in table[h]
  /\ \A h \in DOMAIN table :
       /\ table[h] # {}
       /\ \A o \in table[h] : Tracked(o) /\ h \in HashesOf(o)

\* C19 witness: delete has returned for an object whose membership set no
\* bounding box gives under the present cellSize and overflow, another object
\* being tracked.
C19_Witness ==
  /\ last.op = "delete" /\ last.ret = "this"
  /\ \A b \in ConfigBoxes : last.hashes # Defined(HashesAt(b, cellSize, overflow))
  /\ \E p \in Objects : Tracked(p)

\* The membership set of o names a bucket that is absent or does not hold o.
Stale(o) == \E h \in HashesOf(o) : h \notin DOMAIN table \/ o \notin table[h]

\* C20: delete(O) on an object whose membership set names buckets that were
\* cleared does not raise, removes no other object from any bucket, leaves no
\* empty bucket and removes O's membership set.
C20_DeleteToleratesStaleMembership ==
  [][\A o \in Objects :
       (Tracked(o) /\ Stale(o) /\ Delete(o)) =>
         /\ last'.ret = "this"
         /\ \A h \in DOMAIN table :
              table[h] \ {o} # {} =>
                (h \in DOMAIN table' /\ table[h] \ {o} \subseteq table'[h])
         /\ \A h \in DOMAIN table' : table'[h] # {}
         /\ ~IsDefined(spatialHashes'[o])]_vars

\* C20 witness: delete has returned for an object of two hashes, the bucket of
\* one being absent and the bucket of the other holding another object only.
C20_Witness ==
  /\ last.op = "delete" /\ last.ret = "this"
  /\ Cardinality(last.missed) = 2
  /\ \E h \in last.missed : h \notin DOMAIN table
  /\ \E h \in last.missed : h \in DOMAIN table

====
